---- MODULE Spec2Model ----
(***************************************************************************)
(* A model of the dubbing pipeline of VietDub Solo:                        *)
(*   src/core/translator.py  translate_segments, call_openrouter,          *)
(*                           parse_translation_response, estimate_cost     *)
(*   src/tts.py              get_tts_provider, generate_all_audio          *)
(*                                                                         *)
(* Text is modelled as a sequence of characters.  A character is a short   *)
(* string; some stand for a fixed run of real characters:                  *)
(*   "[" "]" "," " "   themselves                                          *)
(*   "a" "b"           a letter that is no JSON syntax                     *)
(*   "F"               the fence ```                                       *)
(*   "Fj"              the fence ```json                                   *)
(*   "O1" "O2" ...     {"id": 1, "vietnamese": "   (an object up to and    *)
(*                     including the opening quote of its translation)     *)
(*   "Q"               "}   (the closing quote and brace of an object)     *)
(* Python values (None, int, str) are records [t, n, s] of one shape.      *)
(* Times are whole milliseconds.  A clip file is numbered by its order of  *)
(* creation (tempfile.mktemp gives a fresh name each time); audio_path 0   *)
(* stands for "" and for None.  Money is counted in whole units of 1e-8    *)
(* dollar, rates in hundredths of a dollar per million tokens.             *)
(***************************************************************************)
EXTENDS Integers, Sequences, FiniteSets, TLC

\* ------------------------------------------------------------------ bounds
MaxSegs == 2
MaxBatch == 3
MaxList == 9
MaxStr == 1
MaxShort == 2
MaxIdLen == 2
MaxCostSegs == 4
MaxWords == 3
MaxTtsSegs == 2

VARIABLES
    segments,     \* the segment list: records id, start, end, text, vietnamese, audio_path
    pc,           \* where the running call stands: idle, loop, done, raised
    api_key,      \* the credential of the running call
    batch_size,   \* translate_segments: its batch_size argument
    batches,      \* translate_segments: the batches, each a list of indices into segments
    bi,           \* translate_segments: how many batches the loop has gone through
    response,     \* translate_segments: what call_openrouter gave for the last batch
    sent,         \* the batches handed to call_openrouter by the running call, in order
    json_list,       \* parse_translation_response: the list json.loads gave (translations)
    parsed,       \* parse_translation_response: its outcome [ok, err, map]
    model,        \* estimate_cost: the model id
    cost,         \* estimate_cost: its locals and the value returned
    provider_name, \* generate_all_audio: the backend selector
    provider,     \* generate_all_audio: the provider constructed ("" before)
    fit_duration, \* generate_all_audio: the flag
    gi,           \* generate_all_audio: segments the loop has been through
    synth,        \* the segments handed to provider.synthesize, in order
    spoken,       \* the texts handed to provider.synthesize, in order
    files,        \* the clip files created: <<[dur, live], ...>>, numbered by creation
    speed,        \* synthesize: its speed argument, in hundredths
    net,          \* synthesize: what the backend does with the request
    clip,         \* synthesize, fit_audio_to_duration: the path returned (0 for None)
    slot,         \* fit_audio_to_duration: its target_duration (-1: not called this turn)
    tool_log,     \* fit_audio_to_duration: the ffmpeg runs, in order
    cancel        \* the caller has asked the running call to stop

callVars == <<pc, api_key, batch_size, batches, bi, response, sent>>
parseVars == <<json_list, parsed>>
costVars == <<model, cost>>
ttsVars == <<provider_name, provider, fit_duration, gi, synth, spoken, files>>
unitVars == <<speed, net, clip, slot, tool_log, cancel>>
vars == <<segments, callVars, parseVars, costVars, ttsVars, unitVars>>

\* ------------------------------------------------------- Python values
NoneV == [t |-> "none", n |-> 0, s |-> <<>>]
PyInt(n) == [t |-> "int", n |-> n, s |-> <<>>]
PyStr(s) == [t |-> "str", n |-> 0, s |-> s]

\* bool(v): None, 0 and "" are falsy
Truthy(v) == (v.t = "int" /\ v.n # 0) \/ (v.t = "str" /\ v.s # <<>>)

\* a or b
PyOr(a, b) == IF Truthy(a) THEN a ELSE b

DigitVal(c) == CASE c = "0" -> 0 [] c = "1" -> 1 [] c = "2" -> 2 [] c = "3" -> 3
                 [] c = "4" -> 4 [] c = "5" -> 5 [] OTHER -> -1

RECURSIVE DigitsVal(_)
DigitsVal(s) == IF s = <<>> THEN 0
                ELSE 10 * DigitsVal(SubSeq(s, 1, Len(s) - 1)) + DigitVal(s[Len(s)])

AllDigits(s) == s # <<>> /\ \A i \in 1..Len(s) : DigitVal(s[i]) >= 0

\* int(v): [ok, n]; ok = FALSE stands for ValueError / TypeError
PyIntOf(v) ==
    IF v.t = "int" THEN [ok |-> TRUE, n |-> v.n]
    ELSE IF v.t = "str" /\ AllDigits(v.s) THEN [ok |-> TRUE, n |-> DigitsVal(v.s)]
    ELSE IF v.t = "str" /\ Len(v.s) >= 2 /\ v.s[1] = "-" /\ AllDigits(Tail(v.s))
         THEN [ok |-> TRUE, n |-> 0 - DigitsVal(Tail(v.s))]
    ELSE [ok |-> FALSE, n |-> 0]

\* str(n) for the small non-negative ints used as segment ids
PyStrOfInt(n) == PyStr(<< CASE n = 0 -> "0" [] n = 1 -> "1" [] n = 2 -> "2"
                            [] n = 3 -> "3" [] n = 4 -> "4" [] OTHER -> "5" >>)

\* ------------------------------------------------------------- strings
Min(a, b) == IF a <= b THEN a ELSE b
Max(a, b) == IF a >= b THEN a ELSE b

\* str.find(c): 0-based index of the first c, or -1
Find(s, c) == IF \E i \in 1..Len(s) : s[i] = c
              THEN (CHOOSE i \in 1..Len(s) : s[i] = c /\ \A j \in 1..(i - 1) : s[j] # c) - 1
              ELSE -1

\* str.rfind(c): 0-based index of the last c, or -1
RFind(s, c) == IF \E i \in 1..Len(s) : s[i] = c
               THEN (CHOOSE i \in 1..Len(s) : s[i] = c /\ \A j \in (i + 1)..Len(s) : s[j] # c) - 1
               ELSE -1

\* s[start:end] for 0 <= start, 0 <= end
Slice(s, start, end) == SubSeq(s, start + 1, Min(end, Len(s)))

\* the first index >= i that holds no whitespace (Len(s) + 1 when there is none)
SkipWs(s, i) == IF \E j \in i..Len(s) : s[j] # " "
                THEN CHOOSE j \in i..Len(s) : s[j] # " " /\ \A k \in i..(j - 1) : s[k] = " "
                ELSE Max(i, Len(s) + 1)

\* the last index <= i that holds no whitespace (0 when there is none)
SkipWsBack(s, i) == IF \E j \in 1..i : s[j] # " "
                    THEN CHOOSE j \in 1..i : s[j] # " " /\ \A k \in (j + 1)..i : s[k] = " "
                    ELSE 0

\* str.strip()
Strip(s) == SubSeq(s, SkipWs(s, 1), SkipWsBack(s, Len(s)))

\* ---------------------------------------------------------- json.loads
ObjTok == {"O0", "O1", "O2", "O3", "O4", "O5"}
IdOfTok(c) == CASE c = "O0" -> 0 [] c = "O1" -> 1 [] c = "O2" -> 2 [] c = "O3" -> 3
                [] c = "O4" -> 4 [] OTHER -> 5
TokOfId(n) == CASE n = 0 -> "O0" [] n = 1 -> "O1" [] n = 2 -> "O2" [] n = 3 -> "O3"
                [] n = 4 -> "O4" [] OTHER -> "O5"

\* what may stand inside a JSON string: anything but a quote
StrChar == {"[", "]", ",", " ", "a", "b", "F", "Fj"}
Fences == {"F", "Fj"}

\* an element of a parsed array: a dict with the keys the parser reads, or not a dict
Item(id, ID, Id, vietnamese, Vietnamese, vi, translation) ==
    [dict |-> TRUE, id |-> id, ID |-> ID, Id |-> Id, vietnamese |-> vietnamese,
     Vietnamese |-> Vietnamese, vi |-> vi, translation |-> translation]
NonDict == [dict |-> FALSE, id |-> NoneV, ID |-> NoneV, Id |-> NoneV, vietnamese |-> NoneV,
            Vietnamese |-> NoneV, vi |-> NoneV, translation |-> NoneV]

\* the dict an object character and its string stand for
ObjItem(c, str) == Item(PyInt(IdOfTok(c)), NoneV, NoneV, PyStr(str), NoneV, NoneV, NoneV)

ParseFail == [ok |-> FALSE, nxt |-> 0, items |-> <<>>]

\* the one element of a singleton: The1({e(v) : v \in {x}}) is e(x) with x worked out once
The1(S) == CHOOSE r \in S : TRUE

\* the end of the string that opens after position i
StrEnd(s, i) == IF \E j \in (i + 1)..Len(s) : s[j] \notin StrChar
                THEN CHOOSE j \in (i + 1)..Len(s) :
                        s[j] \notin StrChar /\ \A k \in (i + 1)..(j - 1) : s[k] \in StrChar
                ELSE Len(s) + 1

ParseObject(s, i) ==
    The1({IF j <= Len(s) /\ s[j] = "Q"
          THEN [ok |-> TRUE, nxt |-> j + 1, items |-> <<ObjItem(s[i], SubSeq(s, i + 1, j - 1))>>]
          ELSE ParseFail : j \in {StrEnd(s, i)}})

RECURSIVE ParseValue(_, _)
RECURSIVE ParseElems(_, _, _)

\* s[i] = "[": an array, its elements parsed in order
ParseArray(s, i) ==
    The1({IF k > Len(s) THEN ParseFail
          ELSE IF s[k] = "]" THEN [ok |-> TRUE, nxt |-> k + 1, items |-> <<>>]
          ELSE ParseElems(s, k, <<>>) : k \in {SkipWs(s, i + 1)}})

\* what follows the element v of an array: its end, a comma and more, or an error
AfterElem(s, v, acc) ==
    The1({IF k > Len(s) THEN ParseFail
          ELSE IF s[k] = "]" THEN [ok |-> TRUE, nxt |-> k + 1, items |-> acc \o v.items]
          ELSE IF s[k] = ","
               THEN The1({ParseElems(s, k2, acc2) :
                            k2 \in {SkipWs(s, k + 1)}, acc2 \in {acc \o v.items}})
          ELSE ParseFail : k \in {SkipWs(s, v.nxt)}})

ParseElems(s, i, acc) ==
    IF i > Len(s) THEN ParseFail
    ELSE The1({IF ~v.ok THEN ParseFail ELSE AfterElem(s, v, acc) : v \in {ParseValue(s, i)}})

\* one JSON value at position i, as the element of an array it is
ParseValue(s, i) ==
    IF s[i] \in ObjTok THEN ParseObject(s, i)
    ELSE IF s[i] = "["
         THEN The1({IF a.ok THEN [ok |-> TRUE, nxt |-> a.nxt, items |-> <<NonDict>>]
                    ELSE ParseFail : a \in {ParseArray(s, i)}})
    ELSE ParseFail

JsonError == [kind |-> "error", items |-> <<>>]

\* the value that starts at position i of s, which must fill s
JsonTop(s, i) ==
    IF i > Len(s) THEN JsonError
    ELSE IF s[i] = "["
         THEN The1({IF a.ok /\ SkipWs(s, a.nxt) > Len(s)
                    THEN [kind |-> "list", items |-> a.items]
                    ELSE JsonError : a \in {ParseArray(s, i)}})
    ELSE IF s[i] \in ObjTok
         THEN The1({IF o.ok /\ SkipWs(s, o.nxt) > Len(s)
                    THEN [kind |-> "dict", items |-> <<>>]
                    ELSE JsonError : o \in {ParseObject(s, i)}})
    ELSE JsonError

\* json.loads(doc): kind "list" (with its items), "dict", or "error" (JSONDecodeError)
JsonLoads(doc) == The1({JsonTop(s, SkipWs(s, 1)) : s \in {doc}})

\* ------------------------------------------- parse_translation_response
\* the group of the match that opens at fence i and closes at fence j: from the
\* first non-blank after i to the last non-blank before j
FenceGroup(s, i, j) == SubSeq(s, SkipWs(s, i + 1), SkipWsBack(s, j - 1))

\* re.search(open + r'\s*([\s\S]*?)\s*```', s): the first opening fence that has a
\* fence after it, and the first fence after that one
FenceMatch(s, open) ==
    The1({IF starts = {} THEN [found |-> FALSE, group |-> <<>>]
          ELSE The1({[found |-> TRUE,
                      group |-> FenceGroup(s, i, CHOOSE x \in (i + 1)..Len(s) :
                                    s[x] \in Fences /\ \A y \in (i + 1)..(x - 1) : s[y] \notin Fences)] :
                     i \in {CHOOSE x \in starts : \A y \in starts : x <= y}}) :
          starts \in {{i \in 1..Len(s) : s[i] = open /\ \E j \in (i + 1)..Len(s) : s[j] \in Fences}}})

\* the slice from the first '[' to the last ']'
ArraySlice(s, start, end) == IF start # -1 /\ end > 0 THEN Slice(s, start, end) ELSE s

\* the text of a fenced block whose opening fence is open, or s when there is none
FencedText(s, open) == The1({IF m.found THEN m.group ELSE s : m \in {FenceMatch(s, open)}})

\* the text handed to json.loads: the fenced block, else the slice from the first
\* '[' to the last ']'
ExtractJson(raw) ==
    The1({IF \E i \in 1..Len(s) : s[i] = "Fj" THEN FencedText(s, "Fj")
          ELSE IF \E i \in 1..Len(s) : s[i] = "F" THEN FencedText(s, "F")
          ELSE ArraySlice(s, Find(s, "["), RFind(s, "]") + 1) : s \in {raw}})

\* the repair pass on the stripped text: a missing opening or closing bracket is added
AddBrackets(r0) ==
    The1({IF r1[Len(r1)] = "]" THEN r1 ELSE r1 \o <<"]">> :
          r1 \in {IF r0 # <<>> /\ r0[1] = "[" THEN r0 ELSE <<"[">> \o r0}})

RepairJson(raw) == The1({AddBrackets(r0) : r0 \in {Strip(raw)}})

\* json.loads(text.strip()), and on JSONDecodeError json.loads of the repaired text
LoadsWithRepair(text) ==
    The1({The1({IF first.kind # "error" THEN first ELSE JsonLoads(RepairJson(s)) :
                first \in {JsonLoads(Strip(s))}}) : s \in {text}})

\* a dict as a set of <<key, value>> pairs with distinct keys
MapHas(m, k) == \E p \in m : p[1] = k
MapGet(m, k) == (CHOOSE p \in m : p[1] = k)[2]
MapPut(m, k, v) == {p \in m : p[1] # k} \cup {<<k, v>>}

\* item.get("id") or item.get("ID") or item.get("Id")
ItemId(item) == PyOr(PyOr(item.id, item.ID), item.Id)

\* item.get("vietnamese") or item.get("Vietnamese") or item.get("vi") or item.get("translation")
ItemVietnamese(item) ==
    PyOr(PyOr(PyOr(item.vietnamese, item.Vietnamese), item.vi), item.translation)

\* the key an id is stored under: int(item_id) when that works, else item_id
MapKey(item_id) == LET c == PyIntOf(item_id) IN IF c.ok THEN PyInt(c.n) ELSE item_id

\* one turn of the loop over the parsed items
MapItem(result, item) ==
    The1({IF item_id # NoneV /\ Truthy(vietnamese)
          THEN MapPut(result, MapKey(item_id), vietnamese)
          ELSE result : item_id \in {ItemId(item)}, vietnamese \in {ItemVietnamese(item)}})

\* the loop over the parsed items; item.get on an element that is no dict raises
RECURSIVE BuildMap(_, _)
BuildMap(items, result) ==
    IF items = <<>> THEN [ok |-> TRUE, err |-> "", map |-> result]
    ELSE IF ~Head(items).dict THEN [ok |-> FALSE, err |-> "AttributeError", map |-> {}]
    ELSE The1({BuildMap(rest, r) : rest \in {Tail(items)}, r \in {MapItem(result, Head(items))}})

\* parse_translation_response(response): [ok, err, map]; ~ok stands for the
\* exception err leaving the function
ParseTranslationResponse(raw) ==
    The1({IF loaded.kind = "error" THEN [ok |-> FALSE, err |-> "JSONDecodeError", map |-> {}]
          ELSE IF loaded.kind = "dict" THEN [ok |-> FALSE, err |-> "AttributeError", map |-> {}]
          ELSE BuildMap(loaded.items, {}) : loaded \in {LoadsWithRepair(ExtractJson(raw))}})

\* ---------------------------------------------------------- translate_segments
Range(f) == {f[i] : i \in DOMAIN f}

\* len(range(0, n, b)) for b # 0
RangeLen(n, b) == IF b > 0 THEN (n + b - 1) \div b ELSE 0

\* a bug to tell C6 by: the last, shorter slice is lost
BatchesNoTail(n, b) ==
    [k \in 1..(IF b > 0 THEN n \div b ELSE 0) |-> [j \in 1..b |-> (k - 1) * b + j]]

\* [segments[i:i + b] for i in range(0, n, b)], each slice as the indices it holds
Batches(n, b) ==
    [k \in 1..RangeLen(n, b) |->
        [j \in 1..(Min(k * b, n) - (k - 1) * b) |-> (k - 1) * b + j]]

\* a bug to tell C4 by: the fallback is written whatever the segment holds
NeedsFallbackAlways(seg) == TRUE

\* not seg.get("vietnamese")
NeedsFallback(seg) == ~Truthy(seg.vietnamese)

\* a bug to tell C2 by: a failed batch is left as it was
FallbackLoopSkipped(segs, batch) == segs

\* for seg in batch: if not seg.get("vietnamese"): seg["vietnamese"] = seg["text"]
FallbackLoop(segs, batch) ==
    [i \in DOMAIN segs |->
        IF i \in Range(batch) /\ NeedsFallback(segs[i])
        THEN [segs[i] EXCEPT !.vietnamese = segs[i].text]
        ELSE segs[i]]

\* a bug to tell C5 by: a segment the reply does not name gets the fallback even
\* when it holds a translation
AssignLoopClobbers(segs, batch, translations) ==
    [i \in DOMAIN segs |->
        IF i \notin Range(batch) THEN segs[i]
        ELSE IF MapHas(translations, PyInt(segs[i].id))
             THEN [segs[i] EXCEPT !.vietnamese = MapGet(translations, PyInt(segs[i].id))]
        ELSE [segs[i] EXCEPT !.vietnamese = segs[i].text]]

AssignLoopByIdAlone(segs, batch, translations) ==
    [i \in DOMAIN segs |->
        IF MapHas(translations, PyInt(segs[i].id))
        THEN [segs[i] EXCEPT !.vietnamese = MapGet(translations, PyInt(segs[i].id))]
        ELSE IF i \in Range(batch) /\ NeedsFallback(segs[i])
        THEN [segs[i] EXCEPT !.vietnamese = segs[i].text]
        ELSE segs[i]]

\* the loop over a batch with the parsed translations at hand
AssignLoop(segs, batch, translations) ==
    [i \in DOMAIN segs |->
        IF i \notin Range(batch) THEN segs[i]
        ELSE IF MapHas(translations, PyInt(segs[i].id))
             THEN [segs[i] EXCEPT !.vietnamese = MapGet(translations, PyInt(segs[i].id))]
        ELSE IF MapHas(translations, PyStrOfInt(segs[i].id))
             THEN [segs[i] EXCEPT !.vietnamese = MapGet(translations, PyStrOfInt(segs[i].id))]
        ELSE IF NeedsFallback(segs[i])
             THEN [segs[i] EXCEPT !.vietnamese = segs[i].text]
        ELSE segs[i]]

\* what call_openrouter can give: None (a RequestException inside it), an exception
\* that leaves it (a reply of another shape), or the reply's text
NoResponse == [kind |-> "none", text |-> <<>>]
CallRaises == [kind |-> "raise", text |-> <<>>]
Reply(text) == [kind |-> "text", text |-> text]

\* a bug to tell C3 by: a reply that cannot be parsed ends the run
ParseErrorAborts(segs, batch) == [raised |-> TRUE, segs |-> segs]

\* except Exception as parse_error: the inner handler
ParseErrorHandler(segs, batch) == [raised |-> FALSE, segs |-> FallbackLoop(segs, batch)]

\* a bug to tell C1 by: an exception of the call leaves translate_segments
BatchErrorEscapes(segs, batch) == [raised |-> TRUE, segs |-> segs]

\* except Exception as batch_error: the outer handler
BatchErrorHandler(segs, batch) == [raised |-> FALSE, segs |-> FallbackLoop(segs, batch)]

\* the body of the loop over the batches, for one batch and one outcome of the call
BatchBody(segs, batch, resp) ==
    IF resp.kind = "raise" THEN BatchErrorHandler(segs, batch)
    ELSE IF resp.kind = "none" \/ resp.text = <<>>
         THEN [raised |-> FALSE, segs |-> FallbackLoop(segs, batch)]
    ELSE The1({IF ~tr.ok \/ tr.map = {} THEN ParseErrorHandler(segs, batch)
               ELSE [raised |-> FALSE, segs |-> AssignLoop(segs, batch, tr.map)] :
               tr \in {ParseTranslationResponse(resp.text)}})

\* ------------------------------------------------- the replies of the backend
\* the array [{"id": i, "vietnamese": c}, ...] for the ids of S in rising order
RECURSIVE JsonArrayBody(_, _)
JsonArrayBody(S, c) ==
    IF S = {} THEN <<>>
    ELSE The1({<<TokOfId(i), c, "Q">> \o (IF S = {i} THEN <<>> ELSE <<",">> \o JsonArrayBody(S \ {i}, c)) :
               i \in {CHOOSE x \in S : \A y \in S : x <= y}})

JsonArray(S, c) == <<"[">> \o JsonArrayBody(S, c) \o <<"]">>
Truncated(S, c) == <<"[">> \o JsonArrayBody(S, c)
Fenced(S, c) == <<"Fj", " ">> \o JsonArray(S, c) \o <<" ", "F">>
InProse(S, c) == <<"a", " ">> \o JsonArray(S, c) \o <<" ", "a">>

\* the replies tried for a batch: an array for any set of ids (ids of the batch, of
\* other batches, of no segment), the batch's array cut short, fenced or in prose,
\* an empty array, prose alone, nothing
BackendReplies(segs, batch) ==
    LET ids == {segs[i].id : i \in DOMAIN segs} \cup {Len(segs) + 1}
        own == {segs[i].id : i \in Range(batch)}
    IN  {JsonArray(S, "a") : S \in SUBSET ids}
        \cup {JsonArray(own, "b"), Truncated(own, "a"), Fenced(own, "a"), InProse(own, "a")}
        \cup {<<"a">>, <<>>}

BackendOutcomes(segs, batch) ==
    {NoResponse, CallRaises} \cup {Reply(r) : r \in BackendReplies(segs, batch)}

\* ------------------------------------------------------------------ actions
ApiKeys == {"", "key"}
BatchSizes == -1..MaxBatch
Texts == {PyStr(<<>>), PyStr(<<"t">>)}

\* the translation a segment may hold when translate_segments is called: none (as
\* transcribe_audio leaves it), or one from an earlier run or an edit of the table
PriorTranslations == {PyStr(<<>>), PyStr(<<"v">>)}

\* a segment as transcribe_audio makes it
NewSegment(i, text) ==
    [id |-> i, start |-> 1000 * (i - 1), end |-> 1000 * i, text |-> text,
     vietnamese |-> PyStr(<<>>), audio_path |-> 0]

SegmentLists(maxlen, texts, translations) ==
    UNION {{[i \in 1..n |-> [NewSegment(i, tx[i]) EXCEPT !.vietnamese = vi[i]]] :
                tx \in [1..n -> texts], vi \in [1..n -> translations]} : n \in 0..maxlen}

NotParsed == [ok |-> FALSE, err |-> "", map |-> {}]

InitCall ==
    /\ pc = "idle"
    /\ api_key = ""
    /\ batch_size = 1
    /\ batches = <<>>
    /\ bi = 0
    /\ response = NoResponse
    /\ sent = <<>>

InitParse ==
    /\ json_list = <<>>
    /\ parsed = NotParsed

NoCost == [input_tokens |-> 0, output_tokens |-> 0, input_rate |-> 0, output_rate |-> 0,
           total_real_cost |-> 0, returned |-> -1]

InitCost ==
    /\ model = ""
    /\ cost = NoCost

InitTts ==
    /\ provider_name = "fpt"
    /\ provider = ""
    /\ fit_duration = TRUE
    /\ gi = 0
    /\ synth = <<>>
    /\ spoken = <<>>
    /\ files = <<>>

InitUnit ==
    /\ speed = 100
    /\ net = "ok"
    /\ clip = 0
    /\ slot = 0
    /\ tool_log = <<>>
    /\ cancel = FALSE

Init ==
    /\ segments \in SegmentLists(MaxSegs, Texts, PriorTranslations)
    /\ InitCall
    /\ InitParse
    /\ InitCost
    /\ InitTts
    /\ InitUnit

\* translate_segments up to its loop: the credential check and the batches
TranslateCall ==
    /\ pc = "idle"
    /\ \E key \in ApiKeys, b \in BatchSizes :
        /\ api_key' = key
        /\ batch_size' = b
        /\ IF key = "" \/ b = 0
           THEN pc' = "raised" /\ batches' = <<>>
           ELSE /\ batches' = Batches(Len(segments), b)
                /\ pc' = IF RangeLen(Len(segments), b) = 0 THEN "done" ELSE "loop"
    /\ UNCHANGED <<segments, bi, response, sent, parseVars, costVars, ttsVars, unitVars>>

\* one turn of the loop over the batches: the call to the backend and what follows
TranslateBatch ==
    /\ pc = "loop"
    /\ \E resp \in BackendOutcomes(segments, batches[bi + 1]) :
        \E out \in {BatchBody(segments, batches[bi + 1], resp)} :
            /\ response' = resp
            /\ segments' = out.segs
            /\ pc' = IF out.raised THEN "raised"
                     ELSE IF bi + 1 = Len(batches) THEN "done" ELSE "loop"
    /\ sent' = Append(sent, batches[bi + 1])
    /\ bi' = bi + 1
    /\ UNCHANGED <<api_key, batch_size, batches, parseVars, costVars, ttsVars, unitVars>>

Next == TranslateCall \/ TranslateBatch

Spec == Init /\ [][Next]_vars

\* line 37 alone, on longer lists
InitBatches ==
    /\ segments \in SegmentLists(MaxList, {PyStr(<<"t">>)}, {PyStr(<<>>)})
    /\ InitCall
    /\ InitParse
    /\ InitCost
    /\ InitTts
    /\ InitUnit

SpecBatches == InitBatches /\ [][TranslateCall]_vars

\* ------------------------------------ parse_translation_response on its own
\* every text of up to n characters over the alphabet A
RECURSIVE TextsUpTo(_, _)
TextsUpTo(A, n) ==
    IF n = 0 THEN {<<>>}
    ELSE The1({shorter \cup {Append(s, c) : s \in {x \in shorter : Len(x) = n - 1}, c \in A} :
               shorter \in {TextsUpTo(A, n - 1)}})

ReplyChars == StrChar \cup {"O1", "O2", "Q"}

\* one object of a reply: {"id": 1 or 2, "vietnamese": a string of up to MaxStr
\* characters, brackets, commas, blanks and fences among them}
ReplyObjects == {<<o>> \o str \o <<"Q">> : o \in {"O1", "O2"}, str \in TextsUpTo(StrChar, MaxStr)}

PlainObjects == {<<"O1", "a", "Q">>, <<"O2", "b", "Q">>}

\* arrays of one object, or of two of which one is plain, without the closing bracket
OpenArrays == {<<"[">> \o o : o \in ReplyObjects}
                \cup {<<"[">> \o o1 \o <<",">> \o o2 : o1 \in ReplyObjects, o2 \in PlainObjects}
                \cup {<<"[">> \o o1 \o <<",">> \o o2 : o1 \in PlainObjects, o2 \in ReplyObjects}

\* the replies parse_translation_response is tried on: every short text, and every
\* array whole, cut short of its closing bracket, fenced, fenced with the closing
\* fence cut off, or between prose
ParseInputs ==
    TextsUpTo(ReplyChars, MaxShort)
        \cup OpenArrays
        \cup {a \o <<"]">> : a \in OpenArrays}
        \cup {<<"Fj", " ">> \o a \o <<"]">> : a \in OpenArrays}
        \cup {<<"Fj", " ">> \o a \o <<"]", " ", "F">> : a \in OpenArrays}
        \cup {<<"F">> \o a \o <<"]", "F">> : a \in OpenArrays}
        \cup {<<"a", " ">> \o a \o <<"]", " ", "a">> : a \in OpenArrays}

InitParseCall ==
    /\ segments = <<>>
    /\ InitCall
    /\ InitParse
    /\ InitCost
    /\ InitTts
    /\ InitUnit

\* parse_translation_response(response), called on a reply
ParseCall ==
    /\ pc = "idle"
    /\ \E text \in ParseInputs :
        /\ response' = Reply(text)
        /\ parsed' = ParseTranslationResponse(text)
    /\ pc' = "done"
    /\ UNCHANGED <<segments, api_key, batch_size, batches, bi, sent, json_list, costVars, ttsVars, unitVars>>

SpecParse == InitParseCall /\ [][ParseCall]_vars

\* --------------------- the loop of parse_translation_response over the items
DigitChars == {"0", "1", "2", "-", "x"}
IdValues == {NoneV} \cup {PyInt(n) : n \in -1..2} \cup {PyStr(s) : s \in TextsUpTo(DigitChars, MaxIdLen)}
TranslationValues == {NoneV, PyStr(<<>>), PyStr(<<"a">>)}
NoItem == Item(NoneV, NoneV, NoneV, NoneV, NoneV, NoneV, NoneV)

\* an item with one id key and one translation key
ItemsOneKey ==
    {[[NoItem EXCEPT ![ik] = iv] EXCEPT ![tk] = tv] :
        ik \in {"id", "ID", "Id"}, iv \in IdValues,
        tk \in {"vietnamese", "Vietnamese", "vi", "translation"}, tv \in TranslationValues}

\* the lists tried: one item, or one item followed by a plain second one
ItemLists ==
    {<<it>> : it \in ItemsOneKey}
        \cup {<<it, ObjItem(o, <<"b">>)>> : it \in ItemsOneKey, o \in {"O1", "O2"}}

InitItems ==
    /\ segments = <<>>
    /\ InitCall
    /\ json_list \in ItemLists
    /\ parsed = NotParsed
    /\ InitCost
    /\ InitTts
    /\ InitUnit

\* lines 196-210 on the list json.loads gave
BuildCall ==
    /\ pc = "idle"
    /\ parsed' = BuildMap(json_list, {})
    /\ pc' = "done"
    /\ UNCHANGED <<segments, api_key, batch_size, batches, bi, response, sent, json_list, costVars, ttsVars, unitVars>>

SpecItems == InitItems /\ [][BuildCall]_vars

\* ---------------------------------------------------------- estimate_cost
\* len(text.split()): the runs of characters between blanks
WordCount(s) == Cardinality({i \in 1..Len(s) : s[i] # " " /\ (i = 1 \/ s[i - 1] = " ")})

RECURSIVE TotalWords(_)
TotalWords(segs) ==
    IF segs = <<>> THEN 0 ELSE WordCount(Head(segs).text.s) + TotalWords(Tail(segs))

\* the price table: (input rate, output rate); (0, 0) for a model that is not in it
Pricing(m) ==
    CASE m = "meta-llama/llama-3.3-70b-instruct:free" -> <<0, 0>>
      [] m = "allenai/molmo-2-8b:free" -> <<0, 0>>
      [] m = "meta-llama/llama-3.1-8b-instruct" -> <<2, 5>>
      [] m = "google/gemini-2.0-flash-lite-preview-02-05" -> <<10, 40>>
      [] OTHER -> <<0, 0>>

\* int(total_words * 1.3)
InputTokens(total_words) == (13 * total_words) \div 10

\* input_tokens + (200 * len(segments) / 20)
InputTokensWithPrompt(input_tokens, n) == input_tokens + (200 * n) \div 20

\* int(input_tokens * 1.5)
OutputTokens(input_tokens) == (3 * input_tokens) \div 2

\* cost_input + cost_output, in units of 1e-8 dollar
TotalRealCost(with_prompt, output_tokens, rates) ==
    with_prompt * rates[1] + output_tokens * rates[2]

DisplayCostPlain(total_real_cost) == total_real_cost

\* total_real_cost * 2
DisplayCost(total_real_cost) == total_real_cost * 2

\* round(x, 6), x in units of 1e-8 dollar, the result in millionths of a dollar;
\* halfway between two millionths the binary value of x decides the side
Round6(x) ==
    IF x % 100 < 50 THEN {x \div 100}
    ELSE IF x % 100 > 50 THEN {x \div 100 + 1}
    ELSE {x \div 100, x \div 100 + 1}

\* estimate_cost(segments, model): the locals at the return, for each value it may return
EstimateCost(segs, m) ==
    The1({{[input_tokens |-> it, output_tokens |-> ot, input_rate |-> rates[1],
            output_rate |-> rates[2], total_real_cost |-> real, returned |-> r] :
                r \in Round6(DisplayCost(real))} :
          it \in {InputTokens(TotalWords(segs))},
          ot \in {OutputTokens(InputTokens(TotalWords(segs)))},
          rates \in {Pricing(m)},
          real \in {TotalRealCost(InputTokensWithPrompt(InputTokens(TotalWords(segs)), Len(segs)),
                                  OutputTokens(InputTokens(TotalWords(segs))), Pricing(m))}})

\* TRANSLATION_MODELS: the ids offered for selection, each with the rates its
\* label advertises, in hundredths of a dollar per 1M tokens (free: 0)
TRANSLATION_MODELS ==
    {<<"meta-llama/llama-3.3-70b-instruct:free", 0, 0>>,
     <<"allenai/molmo-2-8b:free", 0, 0>>,
     <<"meta-llama/llama-3.1-8b-instruct", 2, 5>>,
     <<"google/gemini-2.5-flash-lite", 10, 40>>}

Models == {"meta-llama/llama-3.3-70b-instruct:free", "allenai/molmo-2-8b:free",
           "meta-llama/llama-3.1-8b-instruct", "google/gemini-2.0-flash-lite-preview-02-05",
           "google/gemini-2.5-flash-lite"}

\* k words with a blank between
RECURSIVE WordsText(_)
WordsText(k) == IF k = 0 THEN <<>> ELSE IF k = 1 THEN <<"t">> ELSE WordsText(k - 1) \o <<" ", "t">>

CostTexts == {PyStr(WordsText(k)) : k \in 0..MaxWords} \cup {PyStr(<<" ", "t", " ", " ", "t", " ">>)}

InitEstimate ==
    /\ segments \in SegmentLists(MaxCostSegs, CostTexts, {PyStr(<<>>)})
    /\ InitCall
    /\ InitParse
    /\ model \in Models
    /\ cost = NoCost
    /\ InitTts
    /\ InitUnit

EstimateCall ==
    /\ pc = "idle"
    /\ cost' \in EstimateCost(segments, model)
    /\ pc' = "done"
    /\ UNCHANGED <<segments, api_key, batch_size, batches, bi, response, sent, parseVars, model, ttsVars, unitVars>>

SpecCost == InitEstimate /\ [][EstimateCall]_vars

\* ------------------------------------------------------------------ tts.py
\* the provider classes get_tts_provider knows
providers == {"fpt", "elevenlabs", "openai"}

GetTtsProviderDefaults(name) ==
    [raised |-> FALSE, provider |-> IF name \in providers THEN name ELSE "fpt"]

\* get_tts_provider(provider_name, api_key): raised stands for the ValueError
GetTtsProvider(name) ==
    IF name \notin providers THEN [raised |-> TRUE, provider |-> ""]
    ELSE [raised |-> FALSE, provider |-> name]

\* a file written under a fresh name; os.remove
NewFile(fs, d) == Append(fs, [dur |-> d, live |-> TRUE])
RemoveFile(fs, p) == [fs EXCEPT ![p].live = FALSE]

\* get_audio_duration: the length pydub reads; 0.0 when it cannot read the file
GetAudioDuration(fs, p) == IF fs[p].live THEN fs[p].dur ELSE 0

\* the files after a run of ffmpeg that failed: it stopped before it opened its
\* output, or after, and then the output file is there, with no audio to read
\* (length 0); the code removes nothing in its except branches
FailedRunFiles(fs) == {fs, NewFile(fs, 0)}

\* adjust_audio_speed(audio_path, num/den): ffmpeg writes the clip at the new tempo
\* and the old file is removed, or ffmpeg fails (it always does on a tempo that is
\* not positive) and the path given is returned
AdjustAudioSpeed(fs, p, num, den) ==
    {[path |-> p, files |-> after] : after \in FailedRunFiles(fs)}
        \cup IF num > 0 /\ den > 0
             THEN {[path |-> Len(fs) + 1,
                    files |-> RemoveFile(NewFile(fs, (fs[p].dur * den) \div num), p)]}
             ELSE {}

\* one run of ffmpeg, as fit_audio_to_duration sees it: the tempo num/den of a
\* stretch or the length num/den asked of a trim, and whether the run succeeded
ToolRun(tool, num, den, ok) == [tool |-> tool, num |-> num, den |-> den, ok |-> ok]

TrimWhateverOverrun(fs, p, target) ==
    IF GetAudioDuration(fs, p) > target
    THEN {[raised |-> FALSE, path |-> Len(fs) + 1, files |-> RemoveFile(NewFile(fs, target), p),
           log |-> <<ToolRun("trim", target, 1, TRUE)>>]}
    ELSE {[raised |-> FALSE, path |-> p, files |-> fs, log |-> <<>>]}

TrimUnderHalfSecond(fs, p, target) ==
    IF GetAudioDuration(fs, p) > target /\ GetAudioDuration(fs, p) - target < 500 /\ target > 0
    THEN {[raised |-> FALSE, path |-> Len(fs) + 1, files |-> RemoveFile(NewFile(fs, target), p),
           log |-> <<ToolRun("trim", target, 1, TRUE)>>]}
    ELSE {[raised |-> FALSE, path |-> p, files |-> fs, log |-> <<>>]}

\* fit_audio_to_duration from the second measurement on: the trim; the clip is
\* taken to come out as long as -t asks
TrimToDuration(fs, p, target) ==
    The1({IF new_duration > target /\ new_duration - target < 1000
          THEN {[raised |-> FALSE, path |-> p, files |-> after,
                 log |-> <<ToolRun("trim", target, 1, FALSE)>>] : after \in FailedRunFiles(fs)}
                 \cup IF target > 0
                      THEN {[raised |-> FALSE, path |-> Len(fs) + 1,
                             files |-> RemoveFile(NewFile(fs, target), p),
                             log |-> <<ToolRun("trim", target, 1, TRUE)>>]}
                      ELSE {}
          ELSE {[raised |-> FALSE, path |-> p, files |-> fs, log |-> <<>>]} :
          new_duration \in {GetAudioDuration(fs, p)}})

ActualSpeedUncapped(current_duration, target) == <<current_duration * 115, target * 100>>

\* actual_speed = min((current_duration / target_duration) * 1.15, max_speed), as
\* <<numerator, denominator>>, max_speed being 1.5
ActualSpeed(current_duration, target) ==
    IF target > 0 /\ current_duration * 115 > target * 150 THEN <<150, 100>>
    ELSE <<current_duration * 115, target * 100>>

FitAlwaysStretches(fs, p, target) ==
    UNION {{[r EXCEPT !.log = <<ToolRun("stretch", 150, 100, a.path # p)>> \o r.log] :
                r \in TrimToDuration(a.files, a.path, target)} :
           a \in AdjustAudioSpeed(fs, p, 150, 100)}

\* fit_audio_to_duration(audio_path, target_duration), max_speed 1.5: the outcomes
\* [raised, path, files, log]; raised stands for the ZeroDivisionError of a zero
\* target, log holds the ffmpeg runs in order
FitAudioToDuration(fs, p, target) ==
    The1({IF current_duration <= target
          THEN {[raised |-> FALSE, path |-> p, files |-> fs, log |-> <<>>]}
          ELSE IF target = 0 THEN {[raised |-> TRUE, path |-> 0, files |-> fs, log |-> <<>>]}
          ELSE UNION {{[r EXCEPT !.log = <<ToolRun("stretch", sp[1], sp[2], a.path # p)>> \o r.log] :
                            r \in TrimToDuration(a.files, a.path, target)} :
                      a \in AdjustAudioSpeed(fs, p, sp[1], sp[2])} :
          current_duration \in {GetAudioDuration(fs, p)},
          sp \in {ActualSpeed(GetAudioDuration(fs, p), target)}})

AvailableDurationNoFloor(segs, i) ==
    IF i < Len(segs) THEN segs[i + 1].start - segs[i].start - 100
    ELSE segs[i].end - segs[i].start

AvailableDurationNoBuffer(segs, i) ==
    IF i < Len(segs) THEN Max(500, segs[i + 1].start - segs[i].start)
    ELSE segs[i].end - segs[i].start

\* the slot of segment i: lines 337-345
AvailableDuration(segs, i) ==
    IF i < Len(segs) THEN Max(500, segs[i + 1].start - segs[i].start - 100)
    ELSE segs[i].end - segs[i].start

\* the lengths of the clips a provider may write; 0 for a file that is no audio
ClipDurations == {0, 300, 3000}

\* provider.synthesize(text, voice, speed): "raise" (ValueError on an empty key),
\* "none", or a clip of some length
SynthesizeOutcomes(key) ==
    IF key = "" THEN {[kind |-> "raise", dur |-> 0]}
    ELSE {[kind |-> "none", dur |-> 0]} \cup {[kind |-> "clip", dur |-> d] : d \in ClipDurations}

SetAudioPathOfAll(segs, i, p) == [j \in DOMAIN segs |-> [segs[j] EXCEPT !.audio_path = p]]

SetAudioPathClearsText(segs, i, p) ==
    [segs EXCEPT ![i].audio_path = p, ![i].text = PyStr(<<>>)]

SetAudioPath(segs, i, p) == [segs EXCEPT ![i].audio_path = p]

SpokenTextSourceFirst(seg) == PyOr(seg.text, seg.vietnamese)

\* text = seg.get("vietnamese") or seg.get("text", "")
SpokenText(seg) == PyOr(seg.vietnamese, seg.text)

\* one turn of the loop of generate_all_audio: [segs, files, called, text, target];
\* text is what is handed to provider.synthesize when it is called, target is
\* the slot handed to fit_audio_to_duration, -1 when it is not called
GenerateBody(segs, i, key, fit, fs) ==
    The1({IF ~Truthy(text)
          THEN {[segs |-> segs, files |-> fs, called |-> FALSE, text |-> text, target |-> -1]}
          ELSE UNION {
            IF o.kind = "raise" \/ o.kind = "none"
            THEN {[segs |-> SetAudioPath(segs, i, 0), files |-> fs, called |-> TRUE,
                   text |-> text, target |-> -1]}
            ELSE IF ~fit
            THEN {[segs |-> SetAudioPath(segs, i, Len(fs) + 1), files |-> NewFile(fs, o.dur),
                   called |-> TRUE, text |-> text, target |-> -1]}
            ELSE UNION {{[segs |-> SetAudioPath(segs, i, IF r.raised THEN 0 ELSE r.path),
                          files |-> r.files, called |-> TRUE, text |-> text,
                          target |-> available_duration] :
                             r \in FitAudioToDuration(NewFile(fs, o.dur), Len(fs) + 1,
                                                      available_duration)} :
                        available_duration \in {AvailableDuration(segs, i)}} :
            o \in SynthesizeOutcomes(key)} :
          text \in {SpokenText(segs[i])}})

ProviderNames == providers \cup {"azure", "FPT", ""}

\* the lengths of the segments; each segment starts where the one before ends
SegmentLengths == {0, 400, 500, 2000}

\* the fields of a segment generate_all_audio reads or writes: [text, vietnamese,
\* audio_path]; audio_path -1 stands for the clip of an earlier run
SpokenFields == {<<PyStr(<<>>), PyStr(<<>>), 0>>, <<PyStr(<<>>), PyStr(<<>>), -1>>,
                 <<PyStr(<<"t">>), PyStr(<<>>), 0>>, <<PyStr(<<"t">>), PyStr(<<"v">>), 0>>}

RECURSIVE StartOf(_, _)
StartOf(lens, i) == IF i = 1 THEN 0 ELSE StartOf(lens, i - 1) + lens[i - 1]

TimedSegmentLists ==
    UNION {{[i \in 1..n |-> [id |-> i, start |-> StartOf(lens, i),
                              end |-> StartOf(lens, i) + lens[i],
                              text |-> sp[i][1], vietnamese |-> sp[i][2],
                              audio_path |-> sp[i][3]]] :
                lens \in [1..n -> SegmentLengths], sp \in [1..n -> SpokenFields]} :
           n \in 0..MaxTtsSegs}

InitGenerate ==
    /\ segments \in TimedSegmentLists
    /\ pc = "idle"
    /\ api_key \in ApiKeys
    /\ batch_size = 1
    /\ batches = <<>>
    /\ bi = 0
    /\ response = NoResponse
    /\ sent = <<>>
    /\ InitParse
    /\ InitCost
    /\ provider_name \in ProviderNames
    /\ provider = ""
    /\ fit_duration \in BOOLEAN
    /\ gi = 0
    /\ synth = <<>>
    /\ spoken = <<>>
    /\ files = <<>>
    /\ InitUnit

\* generate_all_audio up to the loop: the provider is constructed
GenerateCall ==
    /\ pc = "idle"
    /\ \E got \in {GetTtsProvider(provider_name)} :
        /\ provider' = got.provider
        /\ pc' = IF got.raised THEN "raised" ELSE IF segments = <<>> THEN "done" ELSE "generate"
    /\ UNCHANGED <<segments, api_key, batch_size, batches, bi, response, sent, parseVars,
                   costVars, provider_name, fit_duration, gi, synth, spoken, files, unitVars>>

\* one turn of the loop
GenerateSegment ==
    /\ pc = "generate"
    /\ \E out \in GenerateBody(segments, gi + 1, api_key, fit_duration, files) :
        /\ segments' = out.segs
        /\ files' = out.files
        /\ synth' = IF out.called THEN Append(synth, gi + 1) ELSE synth
        /\ spoken' = IF out.called THEN Append(spoken, out.text) ELSE spoken
        /\ slot' = out.target
    /\ gi' = gi + 1
    /\ pc' = IF gi + 1 = Len(segments) THEN "done" ELSE "generate"
    /\ UNCHANGED <<api_key, batch_size, batches, bi, response, sent, parseVars, costVars,
                   provider_name, provider, fit_duration, speed, net, clip, tool_log, cancel>>

NextGenerate == GenerateCall \/ GenerateSegment

SpecTTS == InitGenerate /\ [][NextGenerate]_vars

\* -------------------------------------------------- provider.synthesize on its own
\* the speeds of the speed slider, in hundredths
Speeds == {80, 100, 120}

\* what the backend does with the request: the request fails in transport, it is
\* answered with a non-success status, or it succeeds; FPT.AI answers with a
\* reference ("async") that is fetched by a second request: the reference may be
\* missing, and the second request may fail
NetOutcomes(prov) ==
    IF prov = "fpt" THEN {"transport", "status", "noasync", "download", "ok"}
    ELSE {"transport", "status", "ok"}

\* FPTProvider.synthesize, ElevenLabsProvider.synthesize, OpenAIProvider.synthesize:
\* the outcomes [kind, path, files] when the backend does nt and the audio it sends
\* is d long; kind is "raise" (the ValueError of the first lines), "none" or "clip"
Synthesize(prov, key, sp, nt, d, fs) ==
    IF key = "" THEN {[kind |-> "raise", path |-> 0, files |-> fs]}
    ELSE IF nt # "ok" THEN {[kind |-> "none", path |-> 0, files |-> fs]}
    ELSE IF prov = "elevenlabs" /\ sp # 100
    THEN {[kind |-> "clip", path |-> a.path, files |-> a.files] :
            a \in AdjustAudioSpeed(NewFile(fs, d), Len(fs) + 1, sp, 100)}
    ELSE {[kind |-> "clip", path |-> Len(fs) + 1, files |-> NewFile(fs, d)]}

InitSynthesize ==
    /\ segments = <<>>
    /\ pc = "idle"
    /\ api_key \in ApiKeys
    /\ batch_size = 1
    /\ batches = <<>>
    /\ bi = 0
    /\ response = NoResponse
    /\ sent = <<>>
    /\ InitParse
    /\ InitCost
    /\ provider_name \in providers
    /\ provider = provider_name
    /\ fit_duration = TRUE
    /\ gi = 0
    /\ synth = <<>>
    /\ spoken = <<>>
    /\ files = <<>>
    /\ speed \in Speeds
    /\ net \in NetOutcomes(provider_name)
    /\ clip = 0
    /\ slot = 0
    /\ tool_log = <<>>
    /\ cancel = FALSE

\* provider.synthesize(text, voice, speed)
SynthesizeCall ==
    /\ pc = "idle"
    /\ \E d \in ClipDurations :
        \E out \in Synthesize(provider, api_key, speed, net, d, files) :
            /\ pc' = IF out.kind = "raise" THEN "raised" ELSE "done"
            /\ clip' = out.path
            /\ files' = out.files
    /\ UNCHANGED <<segments, api_key, batch_size, batches, bi, response, sent, parseVars,
                   costVars, provider_name, provider, fit_duration, gi, synth, spoken, speed, net,
                   slot, tool_log, cancel>>

SpecSynth == InitSynthesize /\ [][SynthesizeCall]_vars

\* ------------------------------------------- fit_audio_to_duration on its own
\* the lengths of the clip given, 0 for a file that is no audio; the slots
\* generate_all_audio can pass: 500 or more before another segment, end - start
\* (0 or more) for the last segment
FitDurations == {0, 300, 600, 900, 1200, 1500, 2400, 3000, 5000}
FitTargets == {0, 400, 500, 1000, 1900, 2000}

InitFit ==
    /\ segments = <<>>
    /\ InitCall
    /\ InitParse
    /\ InitCost
    /\ provider_name = "fpt"
    /\ provider = "fpt"
    /\ fit_duration = TRUE
    /\ gi = 0
    /\ synth = <<>>
    /\ spoken = <<>>
    /\ \E d \in FitDurations : files = <<[dur |-> d, live |-> TRUE]>>
    /\ speed = 100
    /\ net = "ok"
    /\ clip = 0
    /\ slot \in FitTargets
    /\ tool_log = <<>>
    /\ cancel = FALSE

\* fit_audio_to_duration(audio_path, target_duration) on the clip of path 1
FitCall ==
    /\ pc = "idle"
    /\ \E out \in FitAudioToDuration(files, 1, slot) :
        /\ pc' = IF out.raised THEN "raised" ELSE "done"
        /\ clip' = out.path
        /\ files' = out.files
        /\ tool_log' = out.log
    /\ UNCHANGED <<segments, api_key, batch_size, batches, bi, response, sent, parseVars,
                   costVars, provider_name, provider, fit_duration, gi, synth, spoken, speed, net,
                   slot, cancel>>

SpecFit == InitFit /\ [][FitCall]_vars

\* ------------------------------------------- the two long calls and their caller
\* the caller asks the running call to stop. Neither translate_segments nor
\* generate_all_audio has a parameter through which the request could reach it,
\* and neither loop reads anything but its own arguments: the request changes
\* nothing the calls look at
RequestCancel ==
    /\ pc \in {"loop", "generate"}
    /\ ~cancel
    /\ cancel' = TRUE
    /\ UNCHANGED <<segments, callVars, parseVars, costVars, ttsVars, speed, net, clip, slot,
                   tool_log>>

InitLongCall ==
    /\ segments \in SegmentLists(MaxSegs, Texts, PriorTranslations)
    /\ pc = "idle"
    /\ api_key = "key"
    /\ batch_size = 1
    /\ batches = <<>>
    /\ bi = 0
    /\ response = NoResponse
    /\ sent = <<>>
    /\ InitParse
    /\ InitCost
    /\ provider_name = "openai"
    /\ provider = ""
    /\ fit_duration \in BOOLEAN
    /\ gi = 0
    /\ synth = <<>>
    /\ spoken = <<>>
    /\ files = <<>>
    /\ InitUnit

NextLongCall ==
    TranslateCall \/ TranslateBatch \/ GenerateCall \/ GenerateSegment \/ RequestCancel

SpecCancel == InitLongCall /\ [][NextLongCall]_vars

\* ------------------------------------------------ adjust_audio_speed on its own
\* the atempo filter of lines 221-223 as its stages, each a tempo <<num, den>>:
\* "atempo={speed}", or "atempo=2.0,atempo={speed/2.0}" when speed > 2.0
AtempoFilterSingle(num, den) == <<(<<num, den>>)>>

AtempoFilter(num, den) ==
    IF num > 2 * den THEN <<(<<2, 1>>), (<<num, 2 * den>>)>> ELSE <<(<<num, den>>)>>

\* the speeds tried, in hundredths
StretchSpeeds == {50, 130, 150, 200, 201, 300, 400, 401, 500, 800}

InitStretch ==
    /\ segments = <<>>
    /\ InitCall
    /\ InitParse
    /\ InitCost
    /\ provider_name = "elevenlabs"
    /\ provider = "elevenlabs"
    /\ fit_duration = TRUE
    /\ gi = 0
    /\ synth = <<>>
    /\ spoken = <<>>
    /\ \E d \in FitDurations : files = <<[dur |-> d, live |-> TRUE]>>
    /\ speed \in StretchSpeeds
    /\ net = "ok"
    /\ clip = 0
    /\ slot = 0
    /\ tool_log = <<>>
    /\ cancel = FALSE

\* adjust_audio_speed(audio_path, speed) on the clip of path 1; tool_log takes the
\* stages of the filter handed to ffmpeg and whether the run succeeded
StretchCall ==
    /\ pc = "idle"
    /\ \E a \in AdjustAudioSpeed(files, 1, speed, 100) :
        \E stages \in {AtempoFilter(speed, 100)} :
            /\ clip' = a.path
            /\ files' = a.files
            /\ tool_log' = [k \in DOMAIN stages |->
                                ToolRun("atempo", stages[k][1], stages[k][2], a.path # 1)]
    /\ pc' = "done"
    /\ UNCHANGED <<segments, api_key, batch_size, batches, bi, response, sent, parseVars,
                   costVars, provider_name, provider, fit_duration, gi, synth, spoken, speed, net,
                   slot, cancel>>

SpecStretch == InitStretch /\ [][StretchCall]_vars

\* ------------------------------------- app.py: the "Generate All Audio" button
\* one turn of the button's loop (lines 556-572): [segs, files, called, text,
\* raised]; no fit_audio_to_duration, and no try around the turn: an exception of
\* synthesize leaves the loop
AppGenerateBody(segs, i, key, fs) ==
    The1({IF ~Truthy(text)
          THEN {[segs |-> segs, files |-> fs, called |-> FALSE, text |-> text, raised |-> FALSE]}
          ELSE {IF o.kind = "raise"
                THEN [segs |-> segs, files |-> fs, called |-> TRUE, text |-> text,
                      raised |-> TRUE]
                ELSE IF o.kind = "none"
                THEN [segs |-> SetAudioPath(segs, i, 0), files |-> fs, called |-> TRUE,
                      text |-> text, raised |-> FALSE]
                ELSE [segs |-> SetAudioPath(segs, i, Len(fs) + 1), files |-> NewFile(fs, o.dur),
                      called |-> TRUE, text |-> text, raised |-> FALSE] :
                o \in SynthesizeOutcomes(key)} :
          text \in {SpokenText(segs[i])}})

\* the provider comes from the sidebar's select box, the key from its text field
InitApp ==
    /\ InitGenerate
    /\ provider_name \in providers
    /\ fit_duration = TRUE

\* the button up to its loop: the key is asked for first (lines 549-550)
AppGenerateCall ==
    /\ pc = "idle"
    /\ pc' = IF api_key = "" THEN "raised" ELSE IF segments = <<>> THEN "done" ELSE "app"
    /\ UNCHANGED <<segments, api_key, batch_size, batches, bi, response, sent, parseVars,
                   costVars, ttsVars, unitVars>>

\* one turn of the loop: the provider is constructed anew, then the segment spoken
AppGenerateSegment ==
    /\ pc = "app"
    /\ \E got \in {GetTtsProvider(provider_name)} :
        \E out \in AppGenerateBody(segments, gi + 1, api_key, files) :
            /\ provider' = got.provider
            /\ segments' = IF got.raised THEN segments ELSE out.segs
            /\ files' = IF got.raised THEN files ELSE out.files
            /\ synth' = IF ~got.raised /\ out.called THEN Append(synth, gi + 1) ELSE synth
            /\ spoken' = IF ~got.raised /\ out.called THEN Append(spoken, out.text) ELSE spoken
            /\ pc' = IF got.raised \/ out.raised THEN "raised"
                     ELSE IF gi + 1 = Len(segments) THEN "done" ELSE "app"
    /\ slot' = -1
    /\ gi' = gi + 1
    /\ UNCHANGED <<api_key, batch_size, batches, bi, response, sent, parseVars, costVars,
                   provider_name, fit_duration, speed, net, clip, tool_log, cancel>>

SpecApp == InitApp /\ [][AppGenerateCall \/ AppGenerateSegment]_vars

\* ------------------------------------------------------------------ claims
\* the translations of a reply, as parse_translation_response gives them ({} when
\* the call gave no text or the text cannot be parsed)
ReplyMap(resp) ==
    IF resp.kind # "text" \/ resp.text = <<>> THEN {}
    ELSE The1({IF tr.ok THEN tr.map ELSE {} : tr \in {ParseTranslationResponse(resp.text)}})

\* the batch failed: no reply, an empty reply, or a reply that yields no translation
BatchFailed(resp) == ReplyMap(resp) = {}

AllTranslated(segs) == \A i \in DOMAIN segs : Truthy(segs[i].vietnamese)

\* the value the reply of the step gives segment i, when it names its id
FromReply(segs, i, resp) ==
    /\ MapHas(ReplyMap(resp), PyInt(segs[i].id))
    /\ segs[i].vietnamese = MapGet(ReplyMap(resp), PyInt(segs[i].id))

\* C1, as stated: translate_segments never raises to its caller, whatever the
\* credential (an empty one included) and the backend do (read here for batch sizes
\* of at least 1 only).
C1_NeverRaises == batch_size >= 1 => pc # "raised"

\* C1, amended: translate_segments raises only before its loop, for an empty
\* credential or a batch size of 0, with no batch sent; with a non-empty credential
\* and a batch size other than 0 no behaviour of the backend makes it raise.
C1_RaisesOnlyBeforeLoop ==
    pc = "raised" => (api_key = "" \/ batch_size = 0) /\ sent = <<>> /\ bi = 0

\* C1 witness: the call has returned although the call for its last batch raised
C1_Witness == pc = "done" /\ api_key # "" /\ response.kind = "raise" /\ bi >= 1

\* C2, as stated: when translate_segments returns, every segment holds a non-empty
\* translation, one of the reply or a copy of its text (read here for batch sizes of
\* at least 1 only).
C2_AllNonEmpty ==
    (pc = "done" /\ batch_size >= 1) =>
        \A i \in DOMAIN segments :
            /\ Truthy(segments[i].vietnamese)
            /\ segments[i].vietnamese \in {segments[i].text, PyStr(<<"a">>), PyStr(<<"b">>)}

\* C2, amended: when translate_segments returns and the batch size is at least 1,
\* every segment whose text is non-empty holds a non-empty translation; and whenever
\* a step changes the translation of a segment, the new value is the one the reply
\* of that step gives for the segment's id, or a copy of the segment's text (so a
\* translation is one of the reply, a copy of the text, or the one held on entry).
C2_NonEmptyTextTranslated ==
    /\ [](pc = "done" /\ batch_size >= 1 =>
            \A i \in DOMAIN segments :
                Truthy(segments[i].text) => Truthy(segments[i].vietnamese))
    /\ [][\A i \in DOMAIN segments :
            segments'[i].vietnamese # segments[i].vietnamese =>
                \/ segments'[i].vietnamese = segments[i].text
                \/ FromReply(segments', i, response')]_vars

\* C2 witness: a returned call that left one segment with a translation of the
\* reply and the other with a copy of its text
C2_Witness ==
    /\ pc = "done" /\ Len(segments) = 2
    /\ segments[1].vietnamese = PyStr(<<"a">>)
    /\ Truthy(segments[2].text) /\ segments[2].vietnamese = segments[2].text

\* C3: a failed batch never aborts the run: each of its segments that lacks a
\* translation gets a copy of its text, the loop goes on to the next batch, and when
\* the call returns every batch has been sent to the backend, in list order.
C3_FailureContinues ==
    /\ [][(pc = "loop" /\ bi' = bi + 1 /\ BatchFailed(response')) =>
            /\ pc' = (IF bi' = Len(batches) THEN "done" ELSE "loop")
            /\ \A i \in DOMAIN segments :
                 segments'[i] =
                    IF i \in Range(batches[bi']) /\ ~Truthy(segments[i].vietnamese)
                    THEN [segments[i] EXCEPT !.vietnamese = segments[i].text]
                    ELSE segments[i]]_vars
    /\ [](pc \in {"loop", "done"} => sent = SubSeq(batches, 1, bi))
    /\ [](pc = "done" => bi = Len(batches))

\* C3 witness: the first of two batches failed, its segment holds a copy of its
\* text, and the loop stands before the second batch
C3_Witness ==
    /\ pc = "loop" /\ bi = 1 /\ Len(batches) = 2 /\ BatchFailed(response)
    /\ Truthy(segments[1].text) /\ segments[1].vietnamese = segments[1].text

\* C4: no step replaces a non-empty translation by the fallback: a non-empty
\* translation changes only to the value the reply of that step gives for the
\* segment's id.
C4_FallbackOnlyWhenEmpty ==
    [][\A i \in DOMAIN segments :
        (Truthy(segments[i].vietnamese) /\ segments'[i].vietnamese # segments[i].vietnamese)
            => FromReply(segments', i, response')]_vars

\* C4 witness: a batch failed and its segment still holds the translation it had
C4_Witness ==
    /\ bi >= 1 /\ BatchFailed(response)
    /\ \E i \in Range(batches[bi]) :
        segments[i].vietnamese = PyStr(<<"v">>) /\ Truthy(segments[i].text)

\* C5, as stated: a run on a list whose translations are all non-empty changes no
\* translation, whatever the backend replies.
C5_SecondRunChangesNothing ==
    [][AllTranslated(segments) => segments' = segments]_vars

\* C5, amended: a run on a list whose translations are all non-empty leaves unchanged
\* every segment whose id the parsed reply of its batch does not name (so every
\* segment of a failed batch); a segment whose id the reply names gets the reply's
\* translation in place of the one it held.
C5_SecondRunKeepsUnlessReplied ==
    [][(AllTranslated(segments) /\ pc = "loop") =>
        \A i \in DOMAIN segments :
            segments'[i] =
                IF i \in Range(batches[bi + 1]) /\ MapHas(ReplyMap(response'), PyInt(segments[i].id))
                THEN [segments[i] EXCEPT
                        !.vietnamese = MapGet(ReplyMap(response'), PyInt(segments[i].id))]
                ELSE segments[i]]_vars

\* C5 witness: a returned call on a list that held translations throughout, whose
\* last reply named other ids only
C5_Witness ==
    /\ pc = "done" /\ Len(segments) = 2 /\ ~BatchFailed(response)
    /\ \A i \in DOMAIN segments : segments[i].vietnamese = PyStr(<<"v">>)

\* the indices of the batches, one batch after the other
RECURSIVE Flatten(_)
Flatten(bs) == IF Len(bs) = 0 THEN <<>>
               ELSE Flatten(SubSeq(bs, 1, Len(bs) - 1)) \o bs[Len(bs)]

\* C6: for a batch size b >= 1 the batches are contiguous slices of the list in its
\* order, each of 1 to b segments and all but the last of b, that hold every segment
\* exactly once.
C6_BatchesPartition ==
    (pc \in {"loop", "done"} /\ batch_size >= 1) =>
        /\ Flatten(batches) = [i \in 1..Len(segments) |-> i]
        /\ \A k \in 1..Len(batches) : Len(batches[k]) \in 1..batch_size
        /\ \A k \in 1..(Len(batches) - 1) : Len(batches[k]) = batch_size

\* C6 witness: three batches, the last one shorter than the batch size
C6_Witness ==
    /\ pc = "loop" /\ Len(batches) = 3 /\ batch_size = 3
    /\ Len(batches[3]) < batch_size

\* the reply is a well-formed JSON array of objects but for its final closing bracket
MissingBracket(text) ==
    The1({whole.kind = "list" /\ \A k \in DOMAIN whole.items : whole.items[k].dict :
          whole \in {JsonLoads(text \o <<"]">>)}})

\* the map the items of the array give, once the bracket is put back
MissingBracketMap(text) == BuildMap(JsonLoads(text \o <<"]">>).items, {})

\* C7 (as stated): parse_translation_response succeeds on a reply that is a
\* well-formed JSON array missing only its final closing bracket, whatever
\* characters ('[' and ']' among them) the translated strings hold, and returns
\* the translations of the array.
C7_MissingBracketParses ==
    (pc = "done" /\ response.kind = "text" /\ MissingBracket(response.text)) =>
        parsed.ok /\ parsed.map = MissingBracketMap(response.text).map

IdKeys == {"id", "ID", "Id"}
TranslationKeys == {"vietnamese", "Vietnamese", "vi", "translation"}

\* the item carries an id: one of the three key spellings holds an integer or a
\* numeric string
CarriesId(item) == \E k \in IdKeys : item[k] # NoneV /\ PyIntOf(item[k]).ok
IdOf(item) == PyIntOf(item[CHOOSE k \in IdKeys : item[k] # NoneV /\ PyIntOf(item[k]).ok]).n

\* the item carries a non-empty translation under one of the four keys
CarriesTranslation(item) == \E k \in TranslationKeys : item[k].t = "str" /\ item[k].s # <<>>
TranslationOf(item) == item[CHOOSE k \in TranslationKeys : item[k].t = "str" /\ item[k].s # <<>>]

\* C8 (as stated): every item of the parsed list that carries an id (an integer
\* or a numeric string under id, ID or Id) and a non-empty translation (under
\* vietnamese, Vietnamese, vi or translation) gives the returned map the entry
\* int(id) -> translation, for every integer id; a later item with the same id
\* may replace the entry.
C8_EveryItemMapped ==
    pc = "done" =>
        \A k \in DOMAIN json_list :
            (CarriesId(json_list[k]) /\ CarriesTranslation(json_list[k])) =>
                /\ parsed.ok
                /\ MapHas(parsed.map, PyInt(IdOf(json_list[k])))
                /\ \/ MapGet(parsed.map, PyInt(IdOf(json_list[k]))) = TranslationOf(json_list[k])
                   \/ \E j \in (k + 1)..Len(json_list) :
                        /\ CarriesId(json_list[j]) /\ IdOf(json_list[j]) = IdOf(json_list[k])
                        /\ CarriesTranslation(json_list[j])
                        /\ MapGet(parsed.map, PyInt(IdOf(json_list[k]))) = TranslationOf(json_list[j])

\* twice the real cost of the token counts estimate_cost arrived at, in units of
\* 1e-8 dollar: linear in the two token counts, at the rates of the model
TwiceRealCost ==
    2 * ((cost.input_tokens + 10 * Len(segments)) * cost.input_rate
            + cost.output_tokens * cost.output_rate)

\* C9 (as stated): the value estimate_cost returns equals exactly twice the real
\* cost of the estimated tokens.
C9_DisplayIsExactlyDouble ==
    pc = "done" => 100 * cost.returned = TwiceRealCost

\* C9 (amended): the value estimate_cost returns is twice the real cost rounded to
\* six decimals: a whole number of millionths of a dollar, never negative, within
\* half a millionth of twice the real cost, where the real cost is
\* (input_tokens + 10 per segment) * input rate + output_tokens * output rate with
\* input_tokens = floor(1.3 * words) and output_tokens = floor(1.5 * input_tokens);
\* at rates (0, 0) it is 0.
C9_DisplayIsRoundedDouble ==
    pc = "done" =>
        /\ cost.input_tokens = (13 * TotalWords(segments)) \div 10
        /\ cost.output_tokens = (3 * cost.input_tokens) \div 2
        /\ cost.returned >= 0
        /\ 100 * cost.returned - TwiceRealCost <= 50
        /\ TwiceRealCost - 100 * cost.returned <= 50
        /\ (cost.input_rate = 0 /\ cost.output_rate = 0) => cost.returned = 0

\* a priced model, a cost that rounding changes
C9_Witness ==
    /\ pc = "done"
    /\ model = "meta-llama/llama-3.1-8b-instruct"
    /\ cost.returned > 0
    /\ 100 * cost.returned # TwiceRealCost

\* C10: get_tts_provider raises for every name outside {fpt, elevenlabs, openai}
\* and for none inside, and generate_all_audio called with a name outside raises
\* at once: it ends in the error with no segment read, handed to synthesize or
\* modified, and no clip written.
C10_UnknownProviderRejected ==
    /\ [](provider_name \notin {"fpt", "elevenlabs", "openai"} =>
            /\ pc \in {"idle", "raised"}
            /\ gi = 0 /\ synth = <<>> /\ files = <<>> /\ provider = "")
    /\ [](provider_name \in {"fpt", "elevenlabs", "openai"} => pc # "raised")
    /\ [][(provider_name \notin {"fpt", "elevenlabs", "openai"}) =>
            (pc = "idle" /\ pc' = "raised" /\ segments' = segments)]_vars

\* an unknown name met a list with text to speak and a key, and was rejected
C10_Witness ==
    /\ pc = "raised"
    /\ provider_name \notin {"fpt", "elevenlabs", "openai"}
    /\ api_key # ""
    /\ \E i \in DOMAIN segments : Truthy(segments[i].text)

\* C11 (as stated): for each of the three providers synthesize never raises: with
\* an empty credential, a transport failure or a non-success status the call
\* returns None.
C11_SynthesizeNeverRaises ==
    /\ pc # "raised"
    /\ (pc = "done" /\ (api_key = "" \/ net # "ok")) => clip = 0

\* C12: when the measured length of the clip given is at most the target slot,
\* fit_audio_to_duration returns the path it was given, runs neither the stretch
\* nor the trim, and creates and deletes no file.
C12_NoOpWhenFits ==
    (pc # "idle" /\ files[1].dur <= slot) =>
        /\ pc = "done"
        /\ clip = 1
        /\ tool_log = <<>>
        /\ files = <<[dur |-> files[1].dur, live |-> TRUE]>>

\* a clip of 300 ms against a slot of 400 ms came back as it was
C12_Witness == pc = "done" /\ files[1].dur = 300 /\ slot = 400 /\ clip = 1

\* C13: every stretch fit_audio_to_duration runs is at the tempo
\* min((actual / target) * 1.15, 1.5): above 1, at most 1.5, at most the required
\* tempo, and equal to one of the two (the required tempo is compared with both
\* sides divided by 10^4: the lengths tried are whole tenths of a second).
C13_SpeedIsCappedMin ==
    \A k \in DOMAIN tool_log :
        tool_log[k].tool = "stretch" =>
            /\ k = 1 /\ slot > 0 /\ files[1].dur > slot
            /\ tool_log[k].num > tool_log[k].den
            /\ tool_log[k].num * 100 <= 150 * tool_log[k].den
            /\ tool_log[k].num * (slot \div 100)
                    <= (files[1].dur \div 100) * 115 * (tool_log[k].den \div 100)
            /\ \/ tool_log[k].num * 100 = 150 * tool_log[k].den
               \/ tool_log[k].num * (slot \div 100)
                    = (files[1].dur \div 100) * 115 * (tool_log[k].den \div 100)

\* a clip of 3000 ms against a slot of 500 ms was stretched at the cap
C13_Witness ==
    /\ pc = "done" /\ files[1].dur = 3000 /\ slot = 500
    /\ tool_log # <<>> /\ tool_log[1].tool = "stretch" /\ tool_log[1].ok
    /\ tool_log[1].num * 100 = 150 * tool_log[1].den

C15_FailedStageKeepsClip ==
    (pc = "done" /\ tool_log # <<>>) =>
        /\ ~tool_log[1].ok =>
            /\ clip = 1 /\ files[1].live
            /\ \A k \in DOMAIN tool_log : tool_log[k].tool # "trim" \/ ~tool_log[k].ok
        /\ (tool_log[1].ok /\ Len(tool_log) = 2 /\ ~tool_log[2].ok) =>
            clip = 2 /\ files[2].live

\* C16: in generate_all_audio, the slot handed to the Duration Fitter for a
\* segment that is not the last is max(0.5 s, next start - start - 0.1 s), so it
\* is never below 0.5 s; for the last segment it is end - start.
C16_SlotFormula ==
    (gi >= 1 /\ slot # -1) =>
        IF gi < Len(segments)
        THEN /\ slot >= 500
             /\ slot >= segments[gi + 1].start - segments[gi].start - 100
             /\ slot = 500 \/ slot = segments[gi + 1].start - segments[gi].start - 100
        ELSE slot = segments[gi].end - segments[gi].start

\* the fitter was called for a first segment whose neighbour starts at the same time
C16_Witness ==
    /\ gi = 1
    /\ Len(segments) = 2
    /\ segments[2].start = segments[1].start
    /\ slot = 500

\* C17: the slot handed to the fitter for a segment that is not the last never
\* reaches past the start of the next segment: start + slot <= next start, also
\* for neighbours that start less than 0.6 s apart.
C17_SlotNonOverlapping ==
    (gi >= 1 /\ gi < Len(segments) /\ slot # -1) =>
        segments[gi].start + slot <= segments[gi + 1].start

\* C17 as the code has it: the slot stays clear of the next start exactly when
\* the two starts are 0.5 s or more apart, and ends 0.1 s before the next start
\* when they are 0.6 s or more apart; closer neighbours get the 0.5 s floor, which
\* reaches past the next start.
C17_ClearIffHalfSecondApart ==
    (gi >= 1 /\ gi < Len(segments) /\ slot # -1) =>
        /\ segments[gi].start + slot <= segments[gi + 1].start
                <=> segments[gi + 1].start - segments[gi].start >= 500
        /\ segments[gi + 1].start - segments[gi].start >= 600
                => segments[gi].start + slot + 100 = segments[gi + 1].start

\* the fitter was called with a slot that reaches past the next start
C17_Witness ==
    /\ gi = 1
    /\ Len(segments) = 2
    /\ segments[2].start - segments[1].start = 400
    /\ slot = 500
    /\ segments[1].start + slot > segments[2].start

\* C18: in generate_all_audio a synthesis that fails on segment k (None returned
\* or an exception) empties audio_path of segment k and nothing else; the loop
\* goes on, so every segment with a text is handed to the provider whatever
\* happened to the others, and the list keeps its length and order.
C18_FailureIsLocal ==
    /\ [][pc = "generate" =>
            /\ Len(segments') = Len(segments)
            /\ \A j \in 1..Len(segments) :
                    /\ j # gi + 1 => segments'[j] = segments[j]
                    /\ segments'[j] = [segments[j] EXCEPT !.audio_path = segments'[j].audio_path]
            /\ (synth' # synth /\ Len(files') = Len(files)) => segments'[gi + 1].audio_path = 0
            /\ gi' = gi + 1
            /\ pc' = IF gi + 1 = Len(segments) THEN "done" ELSE "generate"]_vars
    /\ [](pc = "done" /\ provider # "" =>
            synth = SelectSeq([j \in 1..Len(segments) |-> j],
                              LAMBDA j : Truthy(PyOr(segments[j].vietnamese, segments[j].text))))

\* the first of two segments failed, the second has its clip
C18_Witness ==
    /\ pc = "done"
    /\ synth = <<1, 2>>
    /\ segments[1].audio_path = 0
    /\ segments[2].audio_path # 0
    /\ files[segments[2].audio_path].live

\* C19: a call made with an empty credential ends in an error raised to the
\* caller before its loop starts: no batch is sent by translate_segments, no
\* segment is handed to the provider by generate_all_audio.
C19_MissingCredentialBeforeRun ==
    (api_key = "" /\ pc # "idle") =>
        /\ pc = "raised"
        /\ bi = 0
        /\ sent = <<>>
        /\ gi = 0
        /\ synth = <<>>

\* C20: translate_segments and generate_all_audio honour a cancellation signal
\* between batches and between segments: once the caller has asked the running
\* call to stop, no further batch is sent and no further segment is synthesized,
\* so unfinished segments stay as they were.
C20_CancelStopsTheRun ==
    [][cancel => UNCHANGED <<segments, bi, sent, gi, synth, files>>]_vars

\* C21: parse_translation_response parses the content of the fenced block when
\* the reply holds a complete one (an opening and a closing fence), and otherwise
\* the text from the first '[' to the last ']' of the reply, so that prose (or a
\* lone fence) around the array does not prevent parsing.
C21_FenceElseBrackets ==
    (pc = "done" /\ response.kind = "text") =>
        LET s == response.text
            fences == {i \in 1..Len(s) : s[i] \in Fences}
            lo == CHOOSE i \in fences : \A y \in fences : i <= y
            hi == CHOOSE i \in fences : \A y \in fences : i >= y
            chosen == IF Cardinality(fences) = 2 THEN SubSeq(s, lo + 1, hi - 1)
                      ELSE ArraySlice(s, Find(s, "["), RFind(s, "]") + 1)
            loaded == LoadsWithRepair(chosen)
        IN  (Cardinality(fences) <= 1 \/ (Cardinality(fences) = 2 /\ s[hi] = "F")) =>
                parsed = IF loaded.kind = "error"
                         THEN [ok |-> FALSE, err |-> "JSONDecodeError", map |-> {}]
                         ELSE IF loaded.kind = "dict"
                         THEN [ok |-> FALSE, err |-> "AttributeError", map |-> {}]
                         ELSE BuildMap(loaded.items, {})

\* C22: one turn of the loop of translate_segments writes the translation of
\* segments of its own batch and nothing else, whatever ids the reply names (ids
\* of other batches, ids of no segment); the batches processed share no segment,
\* so no segment is written by two batches.
C22_BatchWritesOwnSegments ==
    /\ [][pc = "loop" =>
            /\ DOMAIN segments' = DOMAIN segments
            /\ \A i \in DOMAIN segments :
                    /\ i \notin Range(batches[bi + 1]) => segments'[i] = segments[i]
                    /\ segments'[i] = [segments[i] EXCEPT !.vietnamese = segments'[i].vietnamese]]_vars
    /\ [](\A a, b \in DOMAIN sent : a # b => Range(sent[a]) \cap Range(sent[b]) = {})

\* the reply to the first batch named the segment of the second batch, which is
\* still without a translation
C22_Witness ==
    /\ bi = 1
    /\ batches = <<(<<1>>), (<<2>>)>>
    /\ response.kind = "text"
    /\ MapHas(ReplyMap(response), PyInt(1))
    /\ MapHas(ReplyMap(response), PyInt(2))
    /\ segments[1].vietnamese = MapGet(ReplyMap(response), PyInt(1))
    /\ segments[2].vietnamese = PyStr(<<>>)

\* C23: translate_segments and generate_all_audio keep the list as it is (no
\* segment dropped, added or moved) and keep id, start, end and text of every
\* segment; translate_segments writes vietnamese alone, generate_all_audio writes
\* audio_path alone, and the slot depends on nothing but the starts (for the last
\* segment, its own start and end).
C23_OnlyOwnFieldWritten ==
    [][/\ DOMAIN segments' = DOMAIN segments
       /\ \A i \in DOMAIN segments :
            /\ segments'[i].id = segments[i].id
            /\ segments'[i].start = segments[i].start
            /\ segments'[i].end = segments[i].end
            /\ segments'[i].text = segments[i].text
            /\ pc \in {"idle", "loop"} => segments'[i].audio_path = segments[i].audio_path
            /\ pc \in {"idle", "generate"} => segments'[i].vietnamese = segments[i].vietnamese
       /\ (gi' # gi /\ slot' # -1) =>
            slot' = AvailableDuration(
                        [j \in DOMAIN segments |->
                            [id |-> 0, start |-> segments[j].start, end |-> segments[j].end,
                             text |-> NoneV, vietnamese |-> NoneV, audio_path |-> 0]],
                        gi + 1)]_vars

\* generate_all_audio has been through two segments that hold a translation each
C23_Witness ==
    /\ pc = "done"
    /\ synth = <<1, 2>>
    /\ segments[1].vietnamese = PyStr(<<"v">>)
    /\ segments[2].vietnamese = PyStr(<<"v">>)
    /\ segments[1].audio_path = 0
    /\ segments[2].audio_path # 0
    /\ slot = 1000

\* C24: in generate_all_audio, whenever the provider returns a clip for a segment
\* (segments timed as transcribe_audio times them, a segment of no length among
\* them), the segment ends up with a non-empty audio_path that names a clip on
\* disk: a synthesized clip is never dropped.
C24_SynthesizedClipKept ==
    [][(pc = "generate" /\ Len(files') > Len(files)) =>
            /\ segments'[gi + 1].audio_path # 0
            /\ files'[segments'[gi + 1].audio_path].live]_vars

\* C25: generate_all_audio speaks the translation of a segment when it is not
\* empty and its source text otherwise; a segment with neither is skipped: the
\* provider is not called for it and its audio_path stays as it was.
C25_SpeaksTranslationElseText ==
    [][pc = "generate" =>
        IF segments[gi + 1].vietnamese # PyStr(<<>>)
        THEN synth' = Append(synth, gi + 1)
                /\ spoken' = Append(spoken, segments[gi + 1].vietnamese)
        ELSE IF segments[gi + 1].text # PyStr(<<>>)
        THEN synth' = Append(synth, gi + 1)
                /\ spoken' = Append(spoken, segments[gi + 1].text)
        ELSE /\ synth' = synth
             /\ spoken' = spoken
             /\ files' = files
             /\ segments' = segments]_vars

\* a segment with a translation was spoken from it, and a segment with no text
\* at all, holding a clip of an earlier run, was passed over
C25_Witness ==
    /\ pc = "done"
    /\ Len(segments) = 2
    /\ segments[1].vietnamese = PyStr(<<"v">>)
    /\ segments[1].text = PyStr(<<"t">>)
    /\ synth = <<1>>
    /\ spoken = <<PyStr(<<"v">>)>>
    /\ segments[2].text = PyStr(<<>>)
    /\ segments[2].audio_path = -1

\* C26: when fit_audio_to_duration returns, the clip it returns is the only file
\* of the call left on disk: every file a stage wrote and every clip a stage
\* superseded has been removed, after a failed stretch or trim as well.
C26_NoOrphanFiles ==
    pc = "done" => \A k \in DOMAIN files : files[k].live <=> k = clip

\* C27 (as stated): for every speed above 2.0 adjust_audio_speed chains exactly
\* two stages, 2.0 and speed / 2.0, whose product is the speed asked for, and
\* every stage lies within [0.5, 2.0].
C27_TwoStagesInRange ==
    (pc = "done" /\ speed > 200) =>
        /\ Len(tool_log) = 2
        /\ tool_log[1].num = 2 * tool_log[1].den
        /\ tool_log[2].num * 200 = speed * tool_log[2].den
        /\ tool_log[1].num * tool_log[2].num * 100 = speed * tool_log[1].den * tool_log[2].den
        /\ \A k \in DOMAIN tool_log :
                /\ 2 * tool_log[k].num >= tool_log[k].den
                /\ tool_log[k].num <= 2 * tool_log[k].den

\* C27 as the code has it: two stages, 2.0 and speed / 2.0, of product speed, for
\* every speed above 2.0; the second stage lies within [0.5, 2.0] exactly when
\* the speed is at most 4.0, and is above 2.0 for every speed above 4.0.
C27_TwoStagesInRangeUpToFour ==
    (pc = "done" /\ speed > 200) =>
        /\ Len(tool_log) = 2
        /\ tool_log[1].num = 2 * tool_log[1].den
        /\ tool_log[2].num * 200 = speed * tool_log[2].den
        /\ tool_log[1].num * tool_log[2].num * 100 = speed * tool_log[1].den * tool_log[2].den
        /\ 2 * tool_log[2].num >= tool_log[2].den
        /\ tool_log[2].num <= 2 * tool_log[2].den <=> speed <= 400

\* a clip was stretched at 3.0 in two stages
C27_Witness ==
    /\ pc = "done"
    /\ speed = 300
    /\ Len(tool_log) = 2
    /\ tool_log[2].ok
    /\ clip = 2
    /\ files[1].dur = 3000
    /\ files[2].dur = 1000

C29_AppFitsEveryClip ==
    [][pc = "app" =>
        /\ segments'[gi + 1].audio_path > 0 =>
                /\ slot' = AvailableDuration(segments, gi + 1)
                /\ \E out \in GenerateBody(segments, gi + 1, api_key, TRUE, files) :
                        segments' = out.segs /\ files' = out.files
        /\ pc' = IF gi + 1 = Len(segments) THEN "done" ELSE "app"]_vars

\* C30: for every model offered for selection, estimate_cost uses the rates the
\* model's label advertises; a model advertised with a price never gets the
\* rates (0, 0) of an unknown model, nor an estimate of 0.0 on a text with words.
C30_SelectableModelsPriced ==
    pc = "done" =>
        \A m \in TRANSLATION_MODELS :
            m[1] = model =>
                /\ cost.input_rate = m[2]
                /\ cost.output_rate = m[3]
                /\ (m[2] > 0 /\ TotalWords(segments) > 0) => cost.returned > 0

====
